---- MODULE Spec2Model ----
(***************************************************************************)
(* Model of OfficeConvertLoadBalancer (client/src/load.rs): a fixed pool   *)
(* of client slots, each behind a tokio Mutex, a Semaphore with one permit *)
(* per slot, and the convert / acquire_client / try_acquire_client         *)
(* routines run by concurrent tasks.                                       *)
(*                                                                         *)
(* Time.  The code only ever compares an Instant with Instant::now() or    *)
(* with another stored Instant, so every stored Instant i is kept as the   *)
(* offset i - now.  Instant::now() is therefore 0, "now < i" is "i > 0",   *)
(* and the passing of one unit of time (Tick) lowers every stored offset   *)
(* by one.  Offsets further in the past than MaxStale are kept at          *)
(* -MaxStale: the code cannot tell them apart.                             *)
(*                                                                         *)
(* Option<Instant> is a set with at most one element: None is {} and       *)
(* Some(i) is {i}.                                                         *)
(***************************************************************************)
EXTENDS Integers, FiniteSets, Sequences, TLC

\* ---------------------------------------------------------------- bounds
NumTasks == 2
MaxClients == 2
MaxRetryAttempts == 2
MaxStale == 1

\* LoadBalancerConfig.retry_busy_check_after, in clock units
retry_busy_check_after == 2

Tasks == 1..NumTasks
AllSlots == 1..MaxClients

VARIABLES
    total_clients,   \* clients.len()
    retry_attempts,  \* config.retry_attempts
    retry_single_external, \* config.retry_single_external
    notify_timeout,  \* config.notify_timeout
    backend,         \* behaviour of the backend behind each slot
    next_busy_check, \* ClientSlot.next_busy_check of each slot
    locked,          \* state of each slot's Mutex
    client_permit,   \* permits available in the Semaphore
    pc,              \* where each task is in convert / acquire_client / try_acquire_client
    attempt,         \* convert: attempt
    permit,          \* the task holds a SemaphorePermit
    guard,           \* slot whose MutexGuard the task holds, 0 for none
    index,           \* try_acquire_client: position of the scan
    next_wake_time,  \* try_acquire_client / acquire_client: next_wake_time
    result,          \* value convert returned, "none" while it is running
    calls,           \* history: backend conversion calls the task has made
    fails,           \* history: how many of them failed with a retryable error
    outcome,         \* convert: the answer of the backend conversion call, until it is dropped
    probe,           \* try_acquire_client: the latest answer of is_busy() in this scan
    age,             \* history: time since the slot was last marked busy, capped
    visit,           \* history: how the current scan got past each slot
    candidate        \* history: earliest wake-time candidate of the current scan

vars == <<total_clients, retry_attempts, retry_single_external, notify_timeout,
          backend, next_busy_check, locked,
          client_permit, pc, attempt, permit, guard, index, next_wake_time,
          result, calls, fails, outcome, probe, age, visit, candidate>>

\* ------------------------------------------------------- pure definitions
\* Option<Instant>
None == {}
Some(i) == {i}
Val(o) == CHOOSE i \in o : TRUE

\* Instant::now(), as an offset from itself
Now == 0

\* the clients of the pool, in the order of self.clients
Slots == 1..total_clients

\* RequestError and the value of a successful conversion
RequestErrors == {"RequestFailed", "InvalidResponse", "ServerConnectTimeout", "ErrorResponse"}
ConvertResults == {"Ok"} \cup RequestErrors

\* the request, response and connect-timeout failures among them
TransientErrors == {"RequestFailed", "InvalidResponse", "ServerConnectTimeout"}

\* is_retry with the error payload of the backend counted as retryable too
is_retry_Any(e) == e \in RequestErrors

\* is_retry without the connect timeout
is_retry_NoTimeout(e) == e \in {"RequestFailed", "InvalidResponse"}

\* RequestError::is_retry
is_retry(e) == e \in {"RequestFailed", "InvalidResponse", "ServerConnectTimeout"}

\* OfficeConvertClient::is_busy: Ok(false), Ok(true) or Err
ProbeResults == {"free", "busy", "fail"}

\* What a backend may answer.  "any" is an unconstrained backend, "good" one
\* that never reports busy and converts every file, "busy" one whose probe
\* never answers not-busy.
BackendKinds == {"any", "good", "busy"}
ProbeAnswers(b) == IF b = "good" THEN {"free"}
                   ELSE IF b = "busy" THEN {"busy", "fail"}
                   ELSE ProbeResults
ConvertAnswers(b) == IF b = "good" THEN {"Ok"} ELSE ConvertResults

\* the scan has been at no slot yet
NoVisit == [s \in AllSlots |-> "none"]

\* the earlier of an optional Instant and an Instant
Earliest(o, i) == IF o # None /\ Val(o) <= i THEN o ELSE Some(i)

\* one unit of time passes over a stored Instant
Elapse(o) == {IF i - 1 >= 0 - MaxStale THEN i - 1 ELSE 0 - MaxStale : i \in o}

\* a busy-check time that adds notify_timeout to the wait
BusyCheckDeadline_Late == Now + retry_busy_check_after + notify_timeout

\* Instant::now().checked_add(config.retry_busy_check_after)
BusyCheckDeadline == Now + retry_busy_check_after

\* the fold of load.rs 198-203 that keeps the value read last
PreferSooner_Latest(wake, nbc) == Some(nbc)

\* next_wake_time after reading a slot's next_busy_check (load.rs 201-203)
PreferSooner(wake, nbc) ==
    IF wake = None \/ nbc < Val(wake) THEN Some(nbc) ELSE wake

\* marking a slot busy without recording a wake time
WakeIfNone_Never(wake, nbc) == wake

\* next_wake_time after marking a slot busy (load.rs 244-246)
WakeIfNone(wake, nbc) == IF wake = None THEN Some(nbc) ELSE wake

\* the comparison of load.rs 208 turned around
NotReadyYet_Reversed(nbc) == Now > nbc

\* `now < next_busy_check` (load.rs 208)
NotReadyYet(nbc) == Now < nbc

\* load.rs 132 with one retry too many, and with one too few
MayRetry_More(a) == a <= retry_attempts + 1
MayRetry_Less(a) == a < retry_attempts

\* `attempt <= self.config.retry_attempts` (load.rs 132)
MayRetry(a) == a <= retry_attempts

\* ------------------------------------------------------------------ Init
\* new_with_timing: every slot unlocked with next_busy_check None, one permit
\* per client.  No convert call has started.  singles and notifies are the
\* values of the two durations of the config that the balancer stores next
\* to retry_busy_check_after.
InitTimed(kinds, singles, notifies) ==
    /\ total_clients \in 1..MaxClients
    /\ retry_attempts \in 0..MaxRetryAttempts
    /\ retry_single_external \in singles
    /\ notify_timeout \in notifies
    /\ backend \in [AllSlots -> kinds]
    /\ \A s \in AllSlots \ Slots : backend[s] = "any"
    /\ next_busy_check = [s \in AllSlots |-> None]
    /\ locked = [s \in AllSlots |-> FALSE]
    /\ client_permit = total_clients
    /\ pc = [t \in Tasks |-> "idle"]
    /\ attempt = [t \in Tasks |-> 0]
    /\ permit = [t \in Tasks |-> FALSE]
    /\ guard = [t \in Tasks |-> 0]
    /\ index = [t \in Tasks |-> 1]
    /\ next_wake_time = [t \in Tasks |-> None]
    /\ result = [t \in Tasks |-> "none"]
    /\ calls = [t \in Tasks |-> 0]
    /\ fails = [t \in Tasks |-> 0]
    /\ outcome = [t \in Tasks |-> "none"]
    /\ probe = [t \in Tasks |-> "none"]
    /\ age = [s \in AllSlots |-> retry_busy_check_after]
    /\ visit = [t \in Tasks |-> NoVisit]
    /\ candidate = [t \in Tasks |-> None]

\* the durations in the order of LoadBalancerConfig::default: 1 s for
\* retry_single_external, 5 s for retry_busy_check_after, 120 s for
\* notify_timeout
DefaultSingle == {retry_busy_check_after - 1}
DefaultNotify == {retry_busy_check_after + 1}

InitWith(kinds) == InitTimed(kinds, DefaultSingle, DefaultNotify)

Init == InitWith({"any"})

\* --------------------------------------------------------------- actions
config_vars == <<total_clients, retry_attempts, retry_single_external, notify_timeout,
                 backend>>
history_vars == <<calls, fails, outcome, probe>>
scan_history == <<visit, candidate>>

\* the for loop of try_acquire_client moves to the next slot, or leaves the
\* loop after the last one (load.rs 187, 249)
NextSlot(t) ==
    /\ index' = [index EXCEPT ![t] = @ + 1]
    /\ pc' = [pc EXCEPT ![t] = IF index[t] + 1 > total_clients THEN "scanned" ELSE "try_lock"]

\* convert is called (load.rs 115-116)
Convert(t) ==
    /\ pc[t] = "idle"
    /\ attempt' = [attempt EXCEPT ![t] = 0]
    /\ pc' = [pc EXCEPT ![t] = "acquire"]
    /\ UNCHANGED <<config_vars, next_busy_check, locked, client_permit, permit, guard,
                   index, next_wake_time, result, history_vars, age,
                   scan_history>>

\* AcquirePermit that does not wait for a permit to be available
AcquirePermit_NoWait(t) ==
    /\ pc[t] = "acquire"
    /\ client_permit' = client_permit - 1
    /\ permit' = [permit EXCEPT ![t] = TRUE]
    /\ next_wake_time' = [next_wake_time EXCEPT ![t] = None]
    /\ index' = [index EXCEPT ![t] = 1]
    /\ pc' = [pc EXCEPT ![t] = "try_lock"]
    /\ visit' = [visit EXCEPT ![t] = NoVisit]
    /\ candidate' = [candidate EXCEPT ![t] = None]
    /\ UNCHANGED <<config_vars, next_busy_check, locked, attempt, guard, result,
                   history_vars, age>>

\* AcquirePermit that starts the scan after the first slot
AcquirePermit_Rotate(t) ==
    /\ pc[t] = "acquire"
    /\ client_permit > 0
    /\ client_permit' = client_permit - 1
    /\ permit' = [permit EXCEPT ![t] = TRUE]
    /\ next_wake_time' = [next_wake_time EXCEPT ![t] = None]
    /\ index' = [index EXCEPT ![t] = IF total_clients > 1 THEN 2 ELSE 1]
    /\ pc' = [pc EXCEPT ![t] = "try_lock"]
    /\ visit' = [visit EXCEPT ![t] = NoVisit]
    /\ candidate' = [candidate EXCEPT ![t] = None]
    /\ UNCHANGED <<config_vars, next_busy_check, locked, attempt, guard, result,
                   history_vars, age>>

\* try_acquire_client gets its permit and starts the scan (load.rs 179-187)
AcquirePermit(t) ==
    /\ pc[t] = "acquire"
    /\ client_permit > 0
    /\ client_permit' = client_permit - 1
    /\ permit' = [permit EXCEPT ![t] = TRUE]
    /\ next_wake_time' = [next_wake_time EXCEPT ![t] = None]
    /\ index' = [index EXCEPT ![t] = 1]
    /\ pc' = [pc EXCEPT ![t] = "try_lock"]
    /\ visit' = [visit EXCEPT ![t] = NoVisit]
    /\ candidate' = [candidate EXCEPT ![t] = None]
    /\ UNCHANGED <<config_vars, next_busy_check, locked, attempt, guard, result,
                   history_vars, age>>

\* TryLock that takes the slot whether or not its Mutex is held
TryLock_Blind(t) ==
    /\ pc[t] = "try_lock"
    /\ locked' = [locked EXCEPT ![index[t]] = TRUE]
    /\ guard' = [guard EXCEPT ![t] = index[t]]
    /\ pc' = [pc EXCEPT ![t] = "locked"]
    /\ UNCHANGED <<config_vars, next_busy_check, client_permit, attempt, permit, index,
                   next_wake_time, result, history_vars, age,
                   scan_history>>

\* TryLock that waits for the Mutex, as slot.lock().await would
TryLock_Wait(t) ==
    /\ pc[t] = "try_lock"
    /\ ~locked[index[t]]
    /\ locked' = [locked EXCEPT ![index[t]] = TRUE]
    /\ guard' = [guard EXCEPT ![t] = index[t]]
    /\ pc' = [pc EXCEPT ![t] = "locked"]
    /\ UNCHANGED <<config_vars, next_busy_check, client_permit, attempt, permit, index,
                   next_wake_time, result, history_vars, age,
                   scan_history>>

\* slot.try_lock() (load.rs 188-192)
TryLock(t) ==
    /\ pc[t] = "try_lock"
    /\ IF locked[index[t]]
       THEN /\ NextSlot(t)
            /\ visit' = [visit EXCEPT ![t][index[t]] = "held"]
            /\ UNCHANGED <<locked, guard>>
       ELSE /\ locked' = [locked EXCEPT ![index[t]] = TRUE]
            /\ guard' = [guard EXCEPT ![t] = index[t]]
            /\ pc' = [pc EXCEPT ![t] = "locked"]
            /\ UNCHANGED <<index, visit>>
    /\ UNCHANGED <<config_vars, next_busy_check, client_permit, attempt, permit,
                   next_wake_time, result, history_vars, age,
                   candidate>>

\* CheckSlot that leaves an expired next_busy_check on the slot
CheckSlot_NoClear(t) ==
    /\ pc[t] = "locked"
    /\ LET s == guard[t]
           nbc == next_busy_check[s]
       IN IF nbc # None
          THEN /\ next_wake_time' = [next_wake_time EXCEPT ![t] = PreferSooner(@, Val(nbc))]
               /\ candidate' = [candidate EXCEPT ![t] = Earliest(@, Val(nbc))]
               /\ IF NotReadyYet(Val(nbc))
                  THEN /\ locked' = [locked EXCEPT ![s] = FALSE]
                       /\ guard' = [guard EXCEPT ![t] = 0]
                       /\ NextSlot(t)
                       /\ visit' = [visit EXCEPT ![t][s] = "window"]
                       /\ UNCHANGED next_busy_check
                  ELSE /\ UNCHANGED next_busy_check
                       /\ pc' = [pc EXCEPT ![t] = "probe"]
                       /\ UNCHANGED <<locked, guard, index, visit>>
          ELSE /\ pc' = [pc EXCEPT ![t] = "probe"]
               /\ UNCHANGED <<next_busy_check, next_wake_time, locked, guard, index,
                              visit, candidate>>
    /\ UNCHANGED <<config_vars, client_permit, attempt, permit, result, history_vars, age>>

\* the check of next_busy_check under the lock (load.rs 194-217): the slot is
\* skipped inside its busy window, otherwise the probe is sent
CheckSlot(t) ==
    /\ pc[t] = "locked"
    /\ LET s == guard[t]
           nbc == next_busy_check[s]
       IN IF nbc # None
          THEN /\ next_wake_time' = [next_wake_time EXCEPT ![t] = PreferSooner(@, Val(nbc))]
               /\ candidate' = [candidate EXCEPT ![t] = Earliest(@, Val(nbc))]
               /\ IF NotReadyYet(Val(nbc))
                  THEN /\ locked' = [locked EXCEPT ![s] = FALSE]
                       /\ guard' = [guard EXCEPT ![t] = 0]
                       /\ NextSlot(t)
                       /\ visit' = [visit EXCEPT ![t][s] = "window"]
                       /\ UNCHANGED next_busy_check
                  ELSE /\ next_busy_check' = [next_busy_check EXCEPT ![s] = None]
                       /\ pc' = [pc EXCEPT ![t] = "probe"]
                       /\ UNCHANGED <<locked, guard, index, visit>>
          ELSE /\ pc' = [pc EXCEPT ![t] = "probe"]
               /\ UNCHANGED <<next_busy_check, next_wake_time, locked, guard, index,
                              visit, candidate>>
    /\ UNCHANGED <<config_vars, client_permit, attempt, permit, result, history_vars, age>>

\* is_busy() answers (load.rs 217)
ProbeReturn(t, r) ==
    /\ pc[t] = "probe"
    /\ r \in ProbeAnswers(backend[guard[t]])
    /\ probe' = [probe EXCEPT ![t] = r]
    /\ pc' = [pc EXCEPT ![t] = "probed"]
    /\ UNCHANGED <<config_vars, next_busy_check, locked, client_permit, attempt, permit,
                   guard, index, next_wake_time, result, calls, fails, outcome, age,
                   scan_history>>

\* HandleProbe that gives up with the error of a failed probe
HandleProbe_Surface(t) ==
    /\ pc[t] = "probed"
    /\ LET s == guard[t]
       IN IF probe[t] = "free"
          THEN /\ pc' = [pc EXCEPT ![t] = "convert"]
               /\ next_wake_time' = [next_wake_time EXCEPT ![t] = None]
               /\ index' = [index EXCEPT ![t] = 1]
               /\ visit' = [visit EXCEPT ![t][s] = "free"]
               /\ candidate' = [candidate EXCEPT ![t] = None]
               /\ UNCHANGED <<next_busy_check, locked, guard, age, result>>
          ELSE IF probe[t] = "fail"
          THEN /\ result' = [result EXCEPT ![t] = "RequestFailed"]
               /\ visit' = [visit EXCEPT ![t] = NoVisit]
               /\ candidate' = [candidate EXCEPT ![t] = None]
               /\ pc' = [pc EXCEPT ![t] = "drop_permit"]
               /\ next_wake_time' = [next_wake_time EXCEPT ![t] = None]
               /\ index' = [index EXCEPT ![t] = 1]
               /\ UNCHANGED <<next_busy_check, locked, guard, age>>
          ELSE /\ next_busy_check' = [next_busy_check EXCEPT ![s] = Some(BusyCheckDeadline)]
               /\ age' = [age EXCEPT ![s] = 0]
               /\ next_wake_time' = [next_wake_time EXCEPT ![t] = WakeIfNone(@, BusyCheckDeadline)]
               /\ visit' = [visit EXCEPT ![t][s] = "busy"]
               /\ candidate' = [candidate EXCEPT ![t] = Earliest(@, BusyCheckDeadline)]
               /\ locked' = [locked EXCEPT ![s] = FALSE]
               /\ guard' = [guard EXCEPT ![t] = 0]
               /\ NextSlot(t)
               /\ UNCHANGED result
    /\ UNCHANGED <<config_vars, client_permit, attempt, permit,
                   calls, fails, outcome, probe>>

\* HandleProbe that hands the slot to the caller without the permit
HandleProbe_DropPermit(t) ==
    /\ pc[t] = "probed"
    /\ LET s == guard[t]
       IN IF probe[t] = "free"
          THEN /\ pc' = [pc EXCEPT ![t] = "convert"]
               /\ next_wake_time' = [next_wake_time EXCEPT ![t] = None]
               /\ index' = [index EXCEPT ![t] = 1]
               /\ visit' = [visit EXCEPT ![t][s] = "free"]
               /\ candidate' = [candidate EXCEPT ![t] = None]
               /\ permit' = [permit EXCEPT ![t] = FALSE]
               /\ client_permit' = client_permit + 1
               /\ UNCHANGED <<next_busy_check, locked, guard, age>>
          ELSE /\ next_busy_check' = [next_busy_check EXCEPT ![s] = Some(BusyCheckDeadline)]
               /\ age' = [age EXCEPT ![s] = 0]
               /\ next_wake_time' = [next_wake_time EXCEPT ![t] = WakeIfNone(@, BusyCheckDeadline)]
               /\ visit' = [visit EXCEPT ![t][s] = "busy"]
               /\ candidate' = [candidate EXCEPT ![t] = Earliest(@, BusyCheckDeadline)]
               /\ locked' = [locked EXCEPT ![s] = FALSE]
               /\ guard' = [guard EXCEPT ![t] = 0]
               /\ NextSlot(t)
               /\ UNCHANGED <<permit, client_permit>>
    /\ UNCHANGED <<config_vars, attempt, result, calls, fails, outcome, probe>>

\* HandleProbe that goes on to the next slot with the lock of this one
HandleProbe_KeepLock(t) ==
    /\ pc[t] = "probed"
    /\ LET s == guard[t]
       IN IF probe[t] = "free"
          THEN /\ pc' = [pc EXCEPT ![t] = "convert"]
               /\ next_wake_time' = [next_wake_time EXCEPT ![t] = None]
               /\ index' = [index EXCEPT ![t] = 1]
               /\ visit' = [visit EXCEPT ![t][s] = "free"]
               /\ candidate' = [candidate EXCEPT ![t] = None]
               /\ UNCHANGED <<next_busy_check, locked, guard, age>>
          ELSE /\ next_busy_check' = [next_busy_check EXCEPT ![s] = Some(BusyCheckDeadline)]
               /\ age' = [age EXCEPT ![s] = 0]
               /\ next_wake_time' = [next_wake_time EXCEPT ![t] = WakeIfNone(@, BusyCheckDeadline)]
               /\ visit' = [visit EXCEPT ![t][s] = "busy"]
               /\ candidate' = [candidate EXCEPT ![t] = Earliest(@, BusyCheckDeadline)]
               /\ UNCHANGED <<locked, guard>>
               /\ NextSlot(t)
    /\ UNCHANGED <<config_vars, client_permit, attempt, permit, result,
                   calls, fails, outcome, probe>>

\* the match on the answer (load.rs 217-249).  Not busy: Acquired is returned
\* through acquire_client (151) to convert, which sends the conversion (121).
\* Busy or failed: the slot is marked and the scan goes on.
HandleProbe(t) ==
    /\ pc[t] = "probed"
    /\ LET s == guard[t]
       IN IF probe[t] = "free"
          THEN /\ pc' = [pc EXCEPT ![t] = "convert"]
               /\ next_wake_time' = [next_wake_time EXCEPT ![t] = None]
               /\ index' = [index EXCEPT ![t] = 1]
               /\ visit' = [visit EXCEPT ![t][s] = "free"]
               /\ candidate' = [candidate EXCEPT ![t] = None]
               /\ UNCHANGED <<next_busy_check, locked, guard, age>>
          ELSE /\ next_busy_check' = [next_busy_check EXCEPT ![s] = Some(BusyCheckDeadline)]
               /\ age' = [age EXCEPT ![s] = 0]
               /\ next_wake_time' = [next_wake_time EXCEPT ![t] = WakeIfNone(@, BusyCheckDeadline)]
               /\ visit' = [visit EXCEPT ![t][s] = "busy"]
               /\ candidate' = [candidate EXCEPT ![t] = Earliest(@, BusyCheckDeadline)]
               /\ locked' = [locked EXCEPT ![s] = FALSE]
               /\ guard' = [guard EXCEPT ![t] = 0]
               /\ NextSlot(t)
    /\ UNCHANGED <<config_vars, client_permit, attempt, permit, result,
                   calls, fails, outcome, probe>>

\* ScanReturn that keeps the permit of a scan that found no slot
ScanReturn_KeepPermit(t) ==
    /\ pc[t] = "scanned"
    /\ IF next_wake_time[t] = None
       THEN /\ pc' = [pc EXCEPT ![t] = "acquire"]
            /\ UNCHANGED next_wake_time
       ELSE IF Now > Val(next_wake_time[t])
       THEN /\ pc' = [pc EXCEPT ![t] = "acquire"]
            /\ next_wake_time' = [next_wake_time EXCEPT ![t] = None]
       ELSE /\ pc' = [pc EXCEPT ![t] = "sleep"]
            /\ UNCHANGED next_wake_time
    /\ index' = [index EXCEPT ![t] = 1]
    /\ probe' = [probe EXCEPT ![t] = "none"]
    /\ visit' = [visit EXCEPT ![t] = NoVisit]
    /\ candidate' = [candidate EXCEPT ![t] = None]
    /\ UNCHANGED <<config_vars, next_busy_check, locked, client_permit, permit, attempt,
                   guard, result, calls, fails, outcome, age>>

\* ScanReturn that gives up when the wake time is beyond notify_timeout
ScanReturn_GiveUp(t) ==
    /\ pc[t] = "scanned"
    /\ permit' = [permit EXCEPT ![t] = FALSE]
    /\ client_permit' = client_permit + 1
    /\ IF next_wake_time[t] = None
       THEN \* BusyInternally
            /\ pc' = [pc EXCEPT ![t] = "acquire"]
            /\ UNCHANGED next_wake_time
            /\ index' = [index EXCEPT ![t] = 1]
       ELSE IF Now > Val(next_wake_time[t])
       THEN \* BusyExternally, the wake time has passed
            /\ pc' = [pc EXCEPT ![t] = "acquire"]
            /\ next_wake_time' = [next_wake_time EXCEPT ![t] = None]
            /\ index' = [index EXCEPT ![t] = 1]
       ELSE \* BusyExternally, sleep_until(next_wake_time)
            /\ pc' = [pc EXCEPT ![t] = IF Val(next_wake_time[t]) > notify_timeout
                                      THEN "done" ELSE "sleep"]
            /\ index' = [index EXCEPT ![t] = 1]
            /\ UNCHANGED next_wake_time
    /\ probe' = [probe EXCEPT ![t] = "none"]
    /\ visit' = [visit EXCEPT ![t] = NoVisit]
    /\ candidate' = [candidate EXCEPT ![t] = None]
    /\ UNCHANGED <<config_vars, next_busy_check, locked, attempt, guard, result,
                   calls, fails, outcome, age>>

\* try_acquire_client returns without a slot, dropping its permit (load.rs
\* 251-255), and acquire_client decides what to do (load.rs 153-170)
ScanReturn(t) ==
    /\ pc[t] = "scanned"
    /\ permit' = [permit EXCEPT ![t] = FALSE]
    /\ client_permit' = client_permit + 1
    /\ IF next_wake_time[t] = None
       THEN \* BusyInternally
            /\ pc' = [pc EXCEPT ![t] = "acquire"]
            /\ UNCHANGED next_wake_time
            /\ index' = [index EXCEPT ![t] = 1]
       ELSE IF Now > Val(next_wake_time[t])
       THEN \* BusyExternally, the wake time has passed
            /\ pc' = [pc EXCEPT ![t] = "acquire"]
            /\ next_wake_time' = [next_wake_time EXCEPT ![t] = None]
            /\ index' = [index EXCEPT ![t] = 1]
       ELSE \* BusyExternally, sleep_until(next_wake_time)
            /\ pc' = [pc EXCEPT ![t] = "sleep"]
            /\ index' = [index EXCEPT ![t] = 1]
            /\ UNCHANGED next_wake_time
    /\ probe' = [probe EXCEPT ![t] = "none"]
    /\ visit' = [visit EXCEPT ![t] = NoVisit]
    /\ candidate' = [candidate EXCEPT ![t] = None]
    /\ UNCHANGED <<config_vars, next_busy_check, locked, attempt, guard, result,
                   calls, fails, outcome, age>>

\* Wake that does not wait for the wake time
Wake_Early(t) ==
    /\ pc[t] = "sleep"
    /\ pc' = [pc EXCEPT ![t] = "acquire"]
    /\ next_wake_time' = [next_wake_time EXCEPT ![t] = None]
    /\ UNCHANGED <<config_vars, next_busy_check, locked, client_permit, attempt, permit,
                   guard, index, result, history_vars, age,
                   scan_history>>

\* sleep_until(next_wake_time) completes (load.rs 169), the loop of
\* acquire_client runs again
Wake(t) ==
    /\ pc[t] = "sleep"
    /\ Val(next_wake_time[t]) <= Now
    /\ pc' = [pc EXCEPT ![t] = "acquire"]
    /\ next_wake_time' = [next_wake_time EXCEPT ![t] = None]
    /\ UNCHANGED <<config_vars, next_busy_check, locked, client_permit, attempt, permit,
                   guard, index, result, history_vars, age,
                   scan_history>>

\* ConvertReturn that marks the slot busy when the conversion failed
ConvertReturn_Mark(t, o) ==
    /\ pc[t] = "convert"
    /\ o \in ConvertAnswers(backend[guard[t]])
    /\ calls' = [calls EXCEPT ![t] = @ + 1]
    /\ outcome' = [outcome EXCEPT ![t] = o]
    /\ fails' = [fails EXCEPT ![t] = IF o \in TransientErrors THEN @ + 1 ELSE @]
    /\ IF o = "Ok"
       THEN /\ result' = [result EXCEPT ![t] = "Ok"]
            /\ UNCHANGED attempt
       ELSE IF is_retry(o)
       THEN /\ attempt' = [attempt EXCEPT ![t] = @ + 1]
            /\ result' = [result EXCEPT ![t] = IF MayRetry(attempt[t] + 1) THEN "none" ELSE o]
       ELSE /\ result' = [result EXCEPT ![t] = o]
            /\ UNCHANGED attempt
    /\ next_busy_check' = [next_busy_check EXCEPT ![guard[t]] =
           IF o \in TransientErrors THEN Some(BusyCheckDeadline) ELSE @]
    /\ pc' = [pc EXCEPT ![t] = "drop_permit"]
    /\ probe' = [probe EXCEPT ![t] = "none"]
    /\ visit' = [visit EXCEPT ![t] = NoVisit]
    /\ UNCHANGED <<config_vars, locked, client_permit, permit, guard,
                   index, next_wake_time, age,
                   candidate>>

\* client.client.convert(file) answers and convert classifies the answer
\* (load.rs 121-144)
ConvertReturn(t, o) ==
    /\ pc[t] = "convert"
    /\ o \in ConvertAnswers(backend[guard[t]])
    /\ calls' = [calls EXCEPT ![t] = @ + 1]
    /\ outcome' = [outcome EXCEPT ![t] = o]
    /\ fails' = [fails EXCEPT ![t] = IF o \in TransientErrors THEN @ + 1 ELSE @]
    /\ IF o = "Ok"
       THEN /\ result' = [result EXCEPT ![t] = "Ok"]
            /\ UNCHANGED attempt
       ELSE IF is_retry(o)
       THEN /\ attempt' = [attempt EXCEPT ![t] = @ + 1]
            /\ result' = [result EXCEPT ![t] = IF MayRetry(attempt[t] + 1) THEN "none" ELSE o]
       ELSE /\ result' = [result EXCEPT ![t] = o]
            /\ UNCHANGED attempt
    /\ pc' = [pc EXCEPT ![t] = "drop_permit"]
    /\ probe' = [probe EXCEPT ![t] = "none"]
    /\ visit' = [visit EXCEPT ![t] = NoVisit]
    /\ UNCHANGED <<config_vars, next_busy_check, locked, client_permit, permit, guard,
                   index, next_wake_time, age,
                   candidate>>

\* the iteration of convert ends: _client_permit, declared last, is dropped
\* first (load.rs 119)
DropPermit(t) ==
    /\ pc[t] = "drop_permit"
    /\ permit' = [permit EXCEPT ![t] = FALSE]
    /\ client_permit' = client_permit + 1
    /\ pc' = [pc EXCEPT ![t] = "drop_client"]
    /\ UNCHANGED <<config_vars, next_busy_check, locked, attempt, guard, index,
                   next_wake_time, result, history_vars, age,
                   scan_history>>

\* DropClient that keeps the MutexGuard when convert returns an error
DropClient_Leak(t) ==
    /\ pc[t] = "drop_client"
    /\ IF result[t] \in RequestErrors
       THEN UNCHANGED <<locked, guard>>
       ELSE /\ locked' = [locked EXCEPT ![guard[t]] = FALSE]
            /\ guard' = [guard EXCEPT ![t] = 0]
    /\ pc' = [pc EXCEPT ![t] = IF result[t] = "none" THEN "acquire" ELSE "done"]
    /\ outcome' = [outcome EXCEPT ![t] = IF result[t] = "none" THEN "none" ELSE @]
    /\ UNCHANGED <<config_vars, next_busy_check, client_permit, attempt, permit, index,
                   next_wake_time, result, calls, fails, probe, age,
                   scan_history>>

\* then the MutexGuard is dropped, and convert either returns or loops
\* (load.rs 119, 122, 133, 139, 144)
DropClient(t) ==
    /\ pc[t] = "drop_client"
    /\ locked' = [locked EXCEPT ![guard[t]] = FALSE]
    /\ guard' = [guard EXCEPT ![t] = 0]
    /\ pc' = [pc EXCEPT ![t] = IF result[t] = "none" THEN "acquire" ELSE "done"]
    /\ outcome' = [outcome EXCEPT ![t] = IF result[t] = "none" THEN "none" ELSE @]
    /\ UNCHANGED <<config_vars, next_busy_check, client_permit, attempt, permit, index,
                   next_wake_time, result, calls, fails, probe, age,
                   scan_history>>

\* one unit of time passes
Tick ==
    /\ next_busy_check' = [s \in AllSlots |-> Elapse(next_busy_check[s])]
    /\ next_wake_time' = [t \in Tasks |-> Elapse(next_wake_time[t])]
    /\ age' = [s \in AllSlots |-> IF age[s] < retry_busy_check_after THEN age[s] + 1 ELSE age[s]]
    /\ candidate' = [t \in Tasks |-> Elapse(candidate[t])]
    /\ UNCHANGED <<config_vars, locked, client_permit, pc, attempt, permit, guard, index,
                   result, history_vars,
                   visit>>

Next ==
    \/ \E t \in Tasks : Convert(t)
    \/ \E t \in Tasks : AcquirePermit(t)
    \/ \E t \in Tasks : TryLock(t)
    \/ \E t \in Tasks : CheckSlot(t)
    \/ \E t \in Tasks, r \in ProbeResults : ProbeReturn(t, r)
    \/ \E t \in Tasks : HandleProbe(t)
    \/ \E t \in Tasks : ScanReturn(t)
    \/ \E t \in Tasks : Wake(t)
    \/ \E t \in Tasks, o \in ConvertResults : ConvertReturn(t, o)
    \/ \E t \in Tasks : DropPermit(t)
    \/ \E t \in Tasks : DropClient(t)
    \/ Tick

Spec == Init /\ [][Next]_vars

\* The pools in which at least one backend never reports busy and converts
\* every file, run by a fair scheduler: time passes, a task that can take a
\* step of convert eventually takes one, and every backend call returns.
LiveInit ==
    /\ InitWith(BackendKinds)
    /\ \E s \in Slots : backend[s] = "good"

TaskNext(t) ==
    \/ AcquirePermit(t)
    \/ TryLock(t)
    \/ CheckSlot(t)
    \/ \E r \in ProbeResults : ProbeReturn(t, r)
    \/ HandleProbe(t)
    \/ ScanReturn(t)
    \/ Wake(t)
    \/ \E o \in ConvertResults : ConvertReturn(t, o)
    \/ DropPermit(t)
    \/ DropClient(t)

Fairness == WF_vars(Tick) /\ \A t \in Tasks : WF_vars(TaskNext(t))

LiveSpec == LiveInit /\ [][Next]_vars /\ Fairness

\* The future of convert is dropped at one of its suspension points: the
\* permit wait (load.rs 179-183), the busy probe (217), the backend call
\* (121) or the timed sleep (169).  Dropping it drops what it holds: in the
\* probe the guard and the permit of try_acquire_client, in the backend call
\* the permit first and the guard after it, as at the end of an iteration.
Cancel_KeepLock(t) ==
    /\ pc[t] \in {"acquire", "probe", "convert", "sleep"}
    /\ IF pc[t] = "probe"
       THEN /\ permit' = [permit EXCEPT ![t] = FALSE]
            /\ client_permit' = client_permit + 1
            /\ pc' = [pc EXCEPT ![t] = "cancelled"]
            /\ UNCHANGED <<locked, guard>>
       ELSE IF pc[t] = "convert"
       THEN /\ permit' = [permit EXCEPT ![t] = FALSE]
            /\ client_permit' = client_permit + 1
            /\ pc' = [pc EXCEPT ![t] = "cancel_client"]
            /\ UNCHANGED <<locked, guard>>
       ELSE /\ pc' = [pc EXCEPT ![t] = "cancelled"]
            /\ UNCHANGED <<locked, guard, permit, client_permit>>
    /\ index' = [index EXCEPT ![t] = 1]
    /\ next_wake_time' = [next_wake_time EXCEPT ![t] = None]
    /\ probe' = [probe EXCEPT ![t] = "none"]
    /\ visit' = [visit EXCEPT ![t] = NoVisit]
    /\ candidate' = [candidate EXCEPT ![t] = None]
    /\ UNCHANGED <<config_vars, next_busy_check, attempt, result, calls, fails,
                   outcome, age>>

Cancel(t) ==
    /\ pc[t] \in {"acquire", "probe", "convert", "sleep"}
    /\ IF pc[t] = "probe"
       THEN /\ locked' = [locked EXCEPT ![guard[t]] = FALSE]
            /\ guard' = [guard EXCEPT ![t] = 0]
            /\ permit' = [permit EXCEPT ![t] = FALSE]
            /\ client_permit' = client_permit + 1
            /\ pc' = [pc EXCEPT ![t] = "cancelled"]
       ELSE IF pc[t] = "convert"
       THEN /\ permit' = [permit EXCEPT ![t] = FALSE]
            /\ client_permit' = client_permit + 1
            /\ pc' = [pc EXCEPT ![t] = "cancel_client"]
            /\ UNCHANGED <<locked, guard>>
       ELSE /\ pc' = [pc EXCEPT ![t] = "cancelled"]
            /\ UNCHANGED <<locked, guard, permit, client_permit>>
    /\ index' = [index EXCEPT ![t] = 1]
    /\ next_wake_time' = [next_wake_time EXCEPT ![t] = None]
    /\ probe' = [probe EXCEPT ![t] = "none"]
    /\ visit' = [visit EXCEPT ![t] = NoVisit]
    /\ candidate' = [candidate EXCEPT ![t] = None]
    /\ UNCHANGED <<config_vars, next_busy_check, attempt, result, calls, fails,
                   outcome, age>>

\* the guard of a convert dropped in its backend call goes after the permit
CancelDrop(t) ==
    /\ pc[t] = "cancel_client"
    /\ locked' = [locked EXCEPT ![guard[t]] = FALSE]
    /\ guard' = [guard EXCEPT ![t] = 0]
    /\ pc' = [pc EXCEPT ![t] = "cancelled"]
    /\ UNCHANGED <<config_vars, next_busy_check, client_permit, attempt, permit, index,
                   next_wake_time, result, history_vars, age, scan_history>>

CancelNext ==
    \/ Next
    \/ \E t \in Tasks : Cancel(t)
    \/ \E t \in Tasks : CancelDrop(t)

\* callers may abandon their convert at any suspension point; dropping a
\* future runs to its end
CancelFairness == Fairness /\ \A t \in Tasks : WF_vars(CancelDrop(t))

CancelSpec == LiveInit /\ [][CancelNext]_vars /\ CancelFairness

\* Pools whose backends are either always busy (or failing the probe) or
\* never busy, with retry_single_external and notify_timeout below and above
\* retry_busy_check_after; no conversion call fails in these pools, so one
\* value of retry_attempts stands for all.  The Semaphore of tokio is fair:
\* a task waiting for a permit gets one if permits keep being released.
Waits == {retry_busy_check_after - 1, retry_busy_check_after + 1}

TimingInit ==
    /\ InitTimed({"busy", "good"}, Waits, Waits)
    /\ retry_attempts = MaxRetryAttempts

TimingFairness == Fairness /\ \A t \in Tasks : SF_vars(AcquirePermit(t))

TimingSpec == TimingInit /\ [][Next]_vars /\ TimingFairness

\* ---------------------------------------------------------------- claims
Returned(t) == pc[t] = "done"
Returning(t) == pc[t] \in {"drop_permit", "drop_client", "done"}
Holders(s) == {t \in Tasks : guard[t] = s}
PermitsHeld == Cardinality({t \in Tasks : permit[t]})
InFlight == Cardinality({t \in Tasks : pc[t] = "convert"})

\* C1: whatever the pool size and however many convert calls run, at most
\* total_clients permits are held and at most total_clients backend
\* conversion calls are in flight.
C1_PermitInvariant ==
    /\ PermitsHeld <= total_clients
    /\ InFlight <= total_clients

\* a conversion is in flight on the only slot and the other caller waits for
\* the permit
C1_Witness ==
    /\ total_clients = 1
    /\ \E t, u \in Tasks : pc[t] = "convert" /\ permit[t] /\ pc[u] = "acquire"

\* each slot has at most one holder, and at most one task probing or using it
C2_OneHolder ==
    \A s \in Slots :
        /\ Cardinality(Holders(s)) <= 1
        /\ Cardinality({t \in Tasks : pc[t] \in {"locked", "probe", "probed", "convert"}
                                       /\ guard[t] = s}) <= 1
        /\ Holders(s) # {} => locked[s]

\* the step of a task whose try_lock fails
C2_SkipStep ==
    \A t \in Tasks :
        (pc[t] = "try_lock" /\ locked[index[t]] /\ <<pc[t], index[t]>>' # <<pc[t], index[t]>>)
        => /\ index'[t] = index[t] + 1
           /\ pc'[t] \in {"try_lock", "scanned"}
           /\ guard'[t] = 0
           /\ locked' = locked
           /\ next_busy_check' = next_busy_check

\* C2: a slot's lock is held by at most one task, so a backend is probed or
\* used by one task at a time; a task whose try_lock fails leaves the slot
\* alone and moves to the next slot in the same step.
C2_MutualExclusion == []C2_OneHolder /\ [][C2_SkipStep]_vars

\* one task probes slot 1 while another, which locked or probed nothing, has
\* gone past it
C2_Witness ==
    \E t, u \in Tasks :
        /\ guard[t] = 1 /\ pc[t] = "probe"
        /\ pc[u] = "try_lock" /\ index[u] = 2
        /\ next_wake_time[u] = None /\ probe[u] = "none"

\* C3: a slot marked busy is not probed again by any task before
\* retry_busy_check_after has passed since the marking.
C3_NoEarlyReprobe ==
    \A t \in Tasks :
        pc[t] \in {"probe", "probed"} => age[guard[t]] >= retry_busy_check_after

\* slot 1 carried a next_busy_check that this scan read, and is probed again
C3_Witness ==
    \E t \in Tasks :
        /\ pc[t] = "probe" /\ index[t] = 1
        /\ next_wake_time[t] # None

\* C4: once a backend conversion call has answered with an error payload,
\* convert returns that error and makes no further call, whatever the attempt
\* number; on the first attempt that is one call in total.
C4_NonRetryable ==
    \A t \in Tasks :
        outcome[t] = "ErrorResponse"
        => /\ Returning(t)
           /\ result[t] = "ErrorResponse"
           /\ calls[t] = fails[t] + 1
           /\ attempt[t] = 0 => calls[t] = 1

\* one convert returned the error payload of its first call, another that of
\* its second call
C4_Witness ==
    \E t, u \in Tasks :
        /\ Returned(t) /\ result[t] = "ErrorResponse" /\ calls[t] = 1
        /\ Returned(u) /\ result[u] = "ErrorResponse" /\ calls[u] = 2

\* C5: a convert all of whose backend calls failed with retryable errors
\* returns after exactly retry_attempts + 1 calls, with the error of the last.
C5_RetriesExhausted ==
    \A t \in Tasks :
        (Returned(t) /\ fails[t] = calls[t])
        => /\ calls[t] = retry_attempts + 1
           /\ result[t] = outcome[t]
           /\ result[t] \in TransientErrors

\* retries exhausted under the largest retry_attempts
C5_Witness ==
    \E t \in Tasks :
        /\ Returned(t) /\ fails[t] = calls[t]
        /\ calls[t] = MaxRetryAttempts + 1

\* C6: k retryable failures with k <= retry_attempts followed by a success
\* make convert return that success after exactly k + 1 calls; convert does
\* not give up with a retryable error while retries are left.
C6_RetryThenSuccess ==
    \A t \in Tasks :
        /\ outcome[t] = "Ok"
           => /\ Returning(t)
              /\ result[t] = "Ok"
              /\ calls[t] = fails[t] + 1
              /\ fails[t] <= retry_attempts
        /\ result[t] \in TransientErrors => fails[t] > retry_attempts

\* single-client pool, two retryable failures, then success on the third call
C6_Witness ==
    \E t \in Tasks :
        /\ total_clients = 1
        /\ Returned(t) /\ result[t] = "Ok"
        /\ fails[t] = 2 /\ calls[t] = 3

\* C7: once convert has returned, by any exit, the task holds neither a slot
\* lock nor a permit; with no convert call active every permit is available
\* and every slot unlocked.
C7_ReleasedOnExit ==
    /\ \A t \in Tasks : Returned(t) => guard[t] = 0 /\ ~permit[t]
    /\ (\A t \in Tasks : pc[t] \in {"idle", "done"})
       => /\ client_permit = total_clients
          /\ \A s \in AllSlots : ~locked[s]

\* one convert returned an error payload, the other ran out of retries
C7_Witness ==
    \E t, u \in Tasks :
        /\ Returned(t) /\ result[t] = "ErrorResponse"
        /\ Returned(u) /\ result[u] \in TransientErrors /\ calls[u] >= 2
\* the slot is inside its busy window
ExternallyBusy(s) == next_busy_check[s] # None /\ NotReadyYet(Val(next_busy_check[s]))

\* the minimum of the slots' recorded busy-check times
EarliestBusyCheck ==
    LET recorded == UNION {next_busy_check[s] : s \in Slots}
    IN CHOOSE i \in recorded : \A j \in recorded : i <= j

\* the steps into and out of the sleep of acquire_client
C8_SleepStep ==
    \A t \in Tasks :
        /\ (pc[t] = "scanned" /\ pc'[t] = "sleep" /\ \A s \in Slots : ExternallyBusy(s))
           => Val(next_wake_time'[t]) >= EarliestBusyCheck
        /\ (pc[t] = "sleep" /\ pc'[t] # "sleep")
           => /\ Val(next_wake_time[t]) <= Now
              /\ pc'[t] = "acquire"

\* C8: a caller that goes to sleep in acquire_client while every slot is
\* inside its busy window has a wake time no earlier than the smallest
\* next_busy_check recorded on the slots; it leaves its sleep only once the
\* wake time is reached, and then scans again.
C8_SleepUntilEarliest == [][C8_SleepStep]_vars
\* the pool of two clients, A always succeeding and B always probing busy
ScenarioAB == total_clients = 2 /\ {backend[1], backend[2]} = {"good", "busy"}

\* in that pool conversions are only made on A, and succeed at the first call
C9_OnlyOnA ==
    ScenarioAB
    => \A t \in Tasks :
           /\ pc[t] \in {"convert", "drop_permit", "drop_client"} => backend[guard[t]] = "good"
           /\ Returned(t) => result[t] = "Ok" /\ calls[t] = 1

\* C9: under fair scheduling, in a pool with a backend that is never busy and
\* always converts, every convert call that was made returns, having held a
\* slot for a backend conversion call; in the pool of two clients where A
\* always succeeds and B always probes busy, every conversion is made on A
\* and succeeds at its first call.
C9_EventuallyReturns ==
    /\ \A t \in Tasks : (pc[t] # "idle") ~> (Returned(t) /\ calls[t] >= 1)
    /\ []C9_OnlyOnA

\* both conversions were made on A while B, at slot 1, is marked busy
C9_Witness ==
    /\ total_clients = 2 /\ backend[1] = "busy" /\ backend[2] = "good"
    /\ next_busy_check[1] # None
    /\ \A t \in Tasks : Returned(t) /\ result[t] = "Ok"
\* the step that handles a probe which answered busy or failed
C10_FoldStep ==
    \A t \in Tasks :
        (pc[t] = "probed" /\ pc'[t] # "probed" /\ probe[t] \in {"busy", "fail"})
        => /\ next_busy_check'[guard[t]] = Some(Now + retry_busy_check_after)
           /\ ~locked'[guard[t]]
           /\ guard'[t] = 0
           /\ index'[t] = index[t] + 1
           /\ pc'[t] \in {"try_lock", "scanned"}
           /\ result'[t] = result[t]
           /\ calls'[t] = calls[t]

\* what convert returns is the answer of its latest backend conversion call
C10_OnlyConvertErrors ==
    \A t \in Tasks :
        result[t] # "none" => /\ result[t] = outcome[t]
                              /\ calls[t] >= 1
                              /\ Returning(t)

\* C10: a probe that failed is handled like one that answered busy: the slot
\* gets next_busy_check = now + retry_busy_check_after, its lock is released
\* and the scan goes to the next slot; convert only ever returns the answer
\* of its latest backend conversion call, never the error of a probe.
C10_ProbeErrorFolded == []C10_OnlyConvertErrors /\ [][C10_FoldStep]_vars

\* the probe of slot 1 failed, the slot is marked and unlocked, and the scan
\* is at slot 2
C10_Witness ==
    \E t \in Tasks :
        /\ probe[t] = "fail" /\ pc[t] = "try_lock" /\ index[t] = 2
        /\ next_busy_check[1] = Some(Now + retry_busy_check_after)
        /\ ~locked[1] /\ guard[t] = 0
LockedSlots == Cardinality({s \in Slots : locked[s]})
Releasing == Cardinality({t \in Tasks : pc[t] = "drop_client"})

\* C11 as stated: at every step a task that holds a slot's lock also holds a
\* permit, so locked slots never outnumber the permits held.
C11_LockImpliesPermit ==
    /\ \A t \in Tasks : guard[t] # 0 => permit[t]
    /\ LockedSlots <= PermitsHeld

\* C11: a task that holds a slot's lock also holds a permit, except between
\* the two drops that end an iteration of convert, where the permit is gone
\* and the lock still held; locked slots outnumber the permits held by at
\* most the number of tasks between those drops.
C11_LockImpliesPermitUntilRelease ==
    /\ \A t \in Tasks : guard[t] # 0 => (permit[t] \/ pc[t] = "drop_client")
    /\ \A t \in Tasks : pc[t] = "drop_client" => guard[t] # 0 /\ ~permit[t]
    /\ LockedSlots <= PermitsHeld + Releasing

\* in a pool of one client a caller still holds the lock after dropping its
\* permit, and the other caller scans with that permit
C11_Witness ==
    \E t, u \in Tasks :
        /\ total_clients = 1
        /\ pc[t] = "drop_client" /\ guard[t] = 1 /\ ~permit[t]
        /\ pc[u] = "try_lock" /\ permit[u]
\* the slots the scan of t was able to lock
LockedByScan(t) == {s \in Slots : visit[t][s] \in {"window", "busy"}}

\* C12: when the scan returns BusyExternally{next_wake_time}, every slot it
\* was able to lock has a next_busy_check, and next_wake_time is the minimum
\* of the next_busy_check recorded on those slots at that moment.
C12_WakeIsEarliestExpiry ==
    \A t \in Tasks :
        (pc[t] = "scanned" /\ next_wake_time[t] # None) =>
            /\ \A s \in LockedByScan(t) : next_busy_check[s] # None
            /\ \A s \in LockedByScan(t) :
                   Val(next_wake_time[t]) <= Val(next_busy_check[s])
            /\ \E s \in LockedByScan(t) :
                   next_busy_check[s] = next_wake_time[t]
\* task t takes a step
Acts(t) == pc'[t] # pc[t] \/ index'[t] # index[t]

\* C13: next_busy_check of a slot changes only in a step of the scan of a
\* task that holds the slot's lock (the stored instant is otherwise the same,
\* seen from a later now); the conversion, the sleep and a failed try_lock
\* leave every next_busy_check as it is.
C13_FrameStep ==
    /\ \A s \in AllSlots :
          \/ next_busy_check'[s] = next_busy_check[s]
          \/ /\ \A t \in Tasks : ~Acts(t)
             /\ next_busy_check'[s] = Elapse(next_busy_check[s])
          \/ \E t \in Tasks :
                /\ Acts(t)
                /\ pc[t] \in {"locked", "probed"}
                /\ guard[t] = s /\ locked[s]
    /\ \A t \in Tasks :
          Acts(t) /\ pc[t] \in {"convert", "sleep", "try_lock", "acquire", "probe"}
              => next_busy_check' = next_busy_check
C13_BusyCheckFrame == [][C13_FrameStep]_vars

\* a marked slot stays marked while one caller converts on the other slot
\* and another caller sleeps
C13_Witness ==
    \E t, u \in Tasks : \E s \in Slots :
        /\ pc[t] = "convert" /\ calls[t] > 0
        /\ pc[u] = "sleep"
        /\ guard[t] # s /\ next_busy_check[s] # None
\* C14: a request failure, an invalid response and a connect timeout are
\* retryable, so convert calls again after one while attempts are left; an
\* error payload of the backend is not retryable and is what convert returns.
C14_Classification ==
    /\ \A e \in {"RequestFailed", "InvalidResponse", "ServerConnectTimeout"} : is_retry(e)
    /\ ~is_retry("ErrorResponse")
    /\ \A t \in Tasks :
          /\ (outcome[t] \in {"RequestFailed", "InvalidResponse", "ServerConnectTimeout"}
                 /\ attempt[t] <= retry_attempts)
              => result[t] = "none"
          /\ outcome[t] = "ErrorResponse"
              => result[t] = "ErrorResponse" /\ Returning(t)

\* one caller is about to call again after a connect timeout, the other has
\* returned the error payload of a backend
C14_Witness ==
    \E t, u \in Tasks :
        /\ pc[t] = "drop_permit" /\ outcome[t] = "ServerConnectTimeout"
        /\ result[t] = "none"
        /\ Returned(u) /\ result[u] = "ErrorResponse"
Abandoned(t) == pc[t] = "cancelled"

\* what an abandoned convert leaves behind: it holds nothing, every permit is
\* either available or held by a live caller, every locked slot has a holder
C15_NothingLeaked ==
    /\ \A t \in Tasks : Abandoned(t) => guard[t] = 0 /\ ~permit[t]
    /\ client_permit + PermitsHeld = total_clients
    /\ \A s \in Slots : locked[s] <=> Holders(s) # {}
    /\ (\A t \in Tasks : pc[t] \in {"idle", "done", "cancelled"})
          => client_permit = total_clients

\* C15: a convert abandoned at a suspension point releases every permit and
\* slot lock it held, and a caller still in convert after another was
\* abandoned acquires a slot and comes to its end.
C15_AbandonReleases ==
    /\ []C15_NothingLeaked
    /\ \A u \in Tasks :
          ((\E t \in Tasks : Abandoned(t)) /\ pc[u] \in {"acquire", "sleep"})
              ~> (pc[u] \in {"convert", "cancel_client", "done", "cancelled"})

\* in a pool of one client a caller has been abandoned and the other one has
\* the slot
C15_Witness ==
    \E t, u \in Tasks :
        /\ total_clients = 1
        /\ Abandoned(t)
        /\ pc[u] = "convert" /\ guard[u] = 1 /\ permit[u]
Scanning(t) == pc[t] \in {"try_lock", "locked", "probe", "probed"}

C17_BusyInternallyIffNoLock ==
    \A t \in Tasks :
        pc[t] = "scanned" =>
            /\ next_wake_time[t] = None <=> (\A s \in Slots : visit[t][s] = "held")
            /\ next_wake_time[t] = None <=> candidate[t] = None
            /\ LockedByScan(t) # {} => next_wake_time[t] # None
            /\ \A s \in Slots : visit[t][s] \in {"held", "window", "busy"}

\* the only slot is still locked by a caller that has dropped its permit, and
\* the scan of the caller that took the permit could lock nothing
C17_Witness ==
    \E t, u \in Tasks :
        /\ pc[t] = "scanned" /\ next_wake_time[t] = None
        /\ visit[t][1] = "held"
        /\ pc[u] = "drop_client" /\ guard[u] = 1
\* C18: the wake time of a scan is, all along the scan and when it returns
\* BusyExternally, the minimum of its wake-time candidates: the
\* next_busy_check values it read from slots it locked and the values it
\* wrote after a busy or failed probe.
C18_WakeIsMinCandidate ==
    \A t \in Tasks :
        (Scanning(t) \/ pc[t] = "scanned") => next_wake_time[t] = candidate[t]

\* the scan marked the first slot and then read an earlier busy-check time
\* from the second, which it returns
C18_Witness ==
    \E t \in Tasks :
        /\ pc[t] = "scanned"
        /\ visit[t] = <<"busy", "window">>
        /\ next_wake_time[t] = next_busy_check[2]
        /\ Val(next_busy_check[2]) < Val(next_busy_check[1])
\* what acquire_client does with the result of a scan
C19_AcquireStep ==
    \A t \in Tasks :
        /\ (pc[t] = "scanned" /\ pc'[t] # "scanned") =>
              IF next_wake_time[t] = None \/ Now > Val(next_wake_time[t])
              THEN pc'[t] = "acquire"
              ELSE pc'[t] = "sleep" /\ next_wake_time'[t] = next_wake_time[t]
        /\ (pc[t] = "sleep" /\ pc'[t] # "sleep") =>
              pc'[t] = "acquire" /\ Val(next_wake_time[t]) <= Now
        /\ (pc[t] # "convert" /\ pc'[t] = "convert") =>
              /\ pc[t] = "probed" /\ probe[t] = "free"
              /\ guard'[t] \in Slots /\ locked'[guard'[t]] /\ permit'[t]

\* C19: acquire_client hands convert only an acquired pair of locked slot
\* and permit; after BusyInternally, and after BusyExternally with a wake
\* time already passed, it scans again at once; otherwise it sleeps, not
\* beyond and not short of the wake time, and then scans again.
C19_OnlyAcquired ==
    /\ [][C19_AcquireStep]_vars
    /\ [](\A t \in Tasks : pc[t] = "convert" => guard[t] \in Slots /\ permit[t])
    /\ \A t \in Tasks : (pc[t] \in {"scanned", "sleep"}) ~> (pc[t] = "try_lock")

\* a scan returned a wake time that has passed, while the other caller
\* converts on the backend that is never busy
C19_Witness ==
    \E t, u \in Tasks :
        /\ pc[t] = "scanned" /\ next_wake_time[t] # None
        /\ Now > Val(next_wake_time[t])
        /\ pc[u] = "convert" /\ backend[guard[u]] = "good"
Pending(t) == pc[t] \notin {"idle", "done"}

\* C20: a caller is suspended only in the permit wait and in the timed
\* sleep, everywhere else (at a slot whose lock is held too) it can take its
\* next step; a caller waiting for a permit can count on a permit holder
\* that can take a step, a sleeper on a wake time that the clock reaches;
\* so while a convert is pending, some task can take a step.
C20_NoLockWait ==
    /\ \A t \in Tasks :
          (Pending(t) /\ pc[t] \notin {"acquire", "sleep"}) => ENABLED TaskNext(t)
    /\ \A t \in Tasks :
          pc[t] = "acquire" =>
              \/ ENABLED AcquirePermit(t)
              \/ \E u \in Tasks : permit[u] /\ ENABLED TaskNext(u)
    /\ \A t \in Tasks :
          pc[t] = "sleep" =>
              /\ next_wake_time[t] # None
              /\ ENABLED Wake(t) \/ (Val(next_wake_time[t]) > Now /\ ENABLED Tick)
    /\ (\E t \in Tasks : Pending(t)) =>
          \E t \in Tasks : ENABLED TaskNext(t) \/ pc[t] = "sleep"

\* a scan is at a slot whose lock the other caller holds for its conversion
C20_Witness ==
    \E t, u \in Tasks :
        /\ pc[t] = "try_lock" /\ locked[index[t]]
        /\ pc[u] = "convert" /\ guard[u] = index[t]
\* C21: a task in the timed sleep, and a task whose scan has returned without
\* a slot (it sleeps or is about to scan again), holds no permit and no slot
\* lock, so the permits not held by scanning or converting tasks are all
\* available.
C21_SleepHoldsNothing ==
    /\ \A t \in Tasks :
          pc[t] \in {"sleep", "acquire"} => ~permit[t] /\ guard[t] = 0
    /\ client_permit =
          total_clients - Cardinality({t \in Tasks : permit[t] /\ pc[t] # "sleep"})
    /\ (\A t \in Tasks : pc[t] \in {"idle", "sleep", "done"})
          => client_permit = total_clients /\ LockedSlots = 0

\* in a pool of one client a caller sleeps while the other has the permit
\* and the lock
C21_Witness ==
    \E t, u \in Tasks :
        /\ total_clients = 1
        /\ pc[t] = "sleep" /\ Val(next_wake_time[t]) > Now
        /\ pc[u] = "locked" /\ permit[u] /\ guard[u] = 1

\* C22: a task holds at most one permit and one slot lock: every locked slot
\* has one holder and every permit taken has one, a scan holds no lock when
\* it tries a slot, and a task that starts an acquisition, the one of a
\* retry too, holds neither lock nor permit.
C22_AtMostOneEach ==
    /\ \A s \in AllSlots : locked[s] <=> Cardinality(Holders(s)) = 1
    /\ LockedSlots = Cardinality({t \in Tasks : guard[t] # 0})
    /\ client_permit + PermitsHeld = total_clients
    /\ \A t \in Tasks :
          /\ pc[t] = "try_lock" => guard[t] = 0 /\ permit[t]
          /\ pc[t] = "acquire" => guard[t] = 0 /\ ~permit[t]
          /\ guard[t] # 0 => guard[t] \in Slots

\* in a pool of one client a caller converts again on the slot of its failed
\* attempt
C22_Witness ==
    \E t \in Tasks :
        /\ total_clients = 1
        /\ pc[t] = "convert" /\ attempt[t] = 1 /\ calls[t] = 1
        /\ guard[t] = 1 /\ permit[t]

\* C23: the slot a caller holds for a backend conversion call, from the
\* moment it is acquired until its lock is released, has no next_busy_check.
C23_HeldSlotUnmarked ==
    \A t \in Tasks :
        pc[t] \in {"convert", "drop_permit", "drop_client"}
            => guard[t] \in Slots /\ next_busy_check[guard[t]] = None

\* the only slot was marked busy, which is why one caller sleeps, and the
\* other caller has it for a conversion, unmarked
C23_Witness ==
    \E t, u \in Tasks :
        /\ total_clients = 1
        /\ pc[u] = "sleep"
        /\ pc[t] = "convert" /\ guard[t] = 1
        /\ next_busy_check[1] = None
\* C24: the wake time a scan returns, and with it the wake time of a task
\* that goes to sleep or sleeps, is at most retry_busy_check_after ahead of
\* now, whether notify_timeout is shorter or longer than that.
C24_SleepBounded ==
    \A t \in Tasks :
        (pc[t] \in {"scanned", "sleep"} /\ next_wake_time[t] # None)
            => Val(next_wake_time[t]) <= Now + retry_busy_check_after

\* a caller sleeps for the whole of retry_busy_check_after, longer than
\* notify_timeout
C24_Witness ==
    \E t \in Tasks :
        /\ pc[t] = "sleep"
        /\ Val(next_wake_time[t]) = Now + retry_busy_check_after
        /\ notify_timeout < retry_busy_check_after

AllBusy == \A s \in Slots : backend[s] = "busy"

\* a convert call in an all-busy pool makes no conversion call, returns
\* nothing and fails with nothing
C25_NoResult ==
    AllBusy =>
        \A t \in Tasks :
            /\ pc[t] \notin {"convert", "drop_permit", "drop_client", "done"}
            /\ result[t] = "none" /\ calls[t] = 0

C25_SleepStep ==
    \A t \in Tasks :
        (AllBusy /\ pc[t] = "scanned" /\ pc'[t] # "scanned") =>
            /\ pc'[t] \in {"sleep", "acquire"}
            /\ pc'[t] = "sleep" <=>
                  (next_wake_time[t] # None /\ Val(next_wake_time[t]) >= Now)

====
